---- MODULE Spec2Model ----
(***************************************************************************)
(* A model of eth_event/main.py: topic derivation (get_log_topic,          *)
(* get_topic_map), receipt log decoding (decode_log, decode_logs, _decode) *)
(* and the trace walker (decode_traceTransaction).                         *)
(*                                                                         *)
(* Python values are tagged records: IntV(n), BytesV(b), StrV(p, b) (a hex *)
(* string, p = it carries the "0x" prefix, b = the bytes it spells) and    *)
(* TupleV(s).  A dict is a record; a missing key is a missing field.       *)
(* A call's outcome is a record [exc, msg, value]: exc = "none" on return. *)
(***************************************************************************)
EXTENDS Integers, Sequences, FiniteSets, TLC

VARIABLES
    hex0x,            \* whether the installed HexBytes.hex() prepends "0x"
    pc,               \* position of the running call
    ret,              \* outcome of the finished call
    topic_map,        \* topic key -> event schema
    log,              \* decode_log: the log being decoded
    inputs,           \* _decode: argument
    topics,           \* _decode: argument, later the reversed pop-stack
    data,             \* _decode: argument
    unindexed_types,  \* _decode: local
    decoded,          \* _decode: local
    result,           \* _decode: local
    pos,              \* _decode: index of the input the loop is at
    logs,             \* decode_logs: argument
    allow_undecoded,  \* decode_logs / decode_traceTransaction: argument
    events,           \* decode_logs / decode_traceTransaction: local
    item,             \* decode_logs: index of the log the loop is at
    struct_logs,      \* decode_traceTransaction: argument
    initial_address,  \* decode_traceTransaction: argument
    address_list,     \* decode_traceTransaction: local
    last_step,        \* decode_traceTransaction: local
    i,                \* decode_traceTransaction: loop index (0-based)
    event_abi,        \* get_log_topic: argument
    abi               \* get_topic_map: argument

vars == <<hex0x, pc, ret, topic_map, log, inputs, topics, data, unindexed_types,
          decoded, result, pos, logs, allow_undecoded, events, item, struct_logs,
          initial_address, address_list, last_step, i, event_abi, abi>>

decodeVars == <<inputs, topics, data, unindexed_types, decoded, result, pos>>
logsVars == <<logs, item>>
traceVars == <<struct_logs, initial_address, address_list, last_step, i>>
topicVars == <<event_abi, abi>>

(***************************************************************************)
(* Bounds of the model.                                                    *)
(***************************************************************************)
MaxInputs == 3
MaxTopics == 3
MaxWords == 3
MaxLogs == 3
MaxSteps == 4
MaxDepth == 2
MaxParams == 2

(***************************************************************************)
(* Program constants.                                                      *)
(***************************************************************************)
WordBytes == 32
AddressHexChars == 40

None == [k |-> "None"]
IntV(n) == [k |-> "int", n |-> n]
BytesV(b) == [k |-> "bytes", b |-> b]
StrV(p, b) == [k |-> "str", prefixed |-> p, b |-> b]
TupleV(s) == [k |-> "tuple", v |-> s]
TextV(s) == [k |-> "text", s |-> s]

Returned(v) == [exc |-> "none", msg |-> "", value |-> v]
Raised(e, m) == [exc |-> e, msg |-> m, value |-> None]

Zeros(n) == [j \in 1..n |-> 0]
Word(v) == Zeros(WordBytes - 1) \o <<v>>
HighWord(v) == <<255>> \o Zeros(WordBytes - 2) \o <<v>>
Last(s) == s[Len(s)]
Front(s) == SubSeq(s, 1, Len(s) - 1)
Reverse(s) == [j \in 1..Len(s) |-> s[Len(s) + 1 - j]]

RECURSIVE BytesToInt(_)
BytesToInt(b) == IF b = <<>> THEN 0 ELSE BytesToInt(Front(b)) * 256 + Last(b)

RECURSIVE IntToBytes(_)
IntToBytes(n) == IF n < 256 THEN <<n>> ELSE IntToBytes(n \div 256) \o <<n % 256>>

\* HexBytes(value): an int becomes its minimal big-endian bytes (to_bytes(hex(val))),
\* bytes and hex strings become the bytes they hold.
HexBytes(value) == IF value.k = "int" THEN IntToBytes(value.n) ELSE value.b

_0xstring(value) == StrV(hex0x, HexBytes(value))

EmptyMarker == StrV(TRUE, <<>>)

(***************************************************************************)
(* _params: canonical type strings.  The tuple pattern of line 316 is      *)
(* modelled on the type vocabulary of the model: a type is tuple-like when *)
(* it starts with "tuple", and its tail is the first bracket group.        *)
(***************************************************************************)
TupleTypes == {"tuple", "tuple[]", "tuple[2]"}
TupleTail(t) == CASE t = "tuple[]" -> "[]" [] t = "tuple[2]" -> "[2]" [] OTHER -> ""

RECURSIVE Join(_)
Join(ts) == IF ts = <<>> THEN ""
            ELSE IF Len(ts) = 1 THEN ts[1] ELSE ts[1] \o "," \o Join(Tail(ts))

\* The outcome of _params on a list: Returned(<<type strings>>) or Raised("KeyError").
RECURSIVE _params(_)
_params(abi_params) ==
    IF abi_params = <<>> THEN Returned(<<>>)
    ELSE LET p == Head(abi_params)
             rest == _params(Tail(abi_params))
         IN  IF "type" \notin DOMAIN p THEN Raised("KeyError", "type")
             ELSE IF p.type \in TupleTypes
                  THEN IF "components" \notin DOMAIN p THEN Raised("KeyError", "components")
                       ELSE LET inner == _params(p.components)
                            IN  IF inner.exc # "none" THEN inner
                                ELSE IF rest.exc # "none" THEN rest
                                ELSE Returned(<<"(" \o Join(inner.value) \o ")" \o TupleTail(p.type)>>
                                              \o rest.value)
                  ELSE IF rest.exc # "none" THEN rest
                       ELSE Returned(<<p.type>> \o rest.value)

(***************************************************************************)
(* The word codec (eth_abi.decode) on the static types of the model.       *)
(***************************************************************************)
TypeWords(t) == IF t = "uint256[2]" THEN 2 ELSE 1

RECURSIVE TotalWords(_)
TotalWords(types) == IF types = <<>> THEN 0 ELSE TypeWords(Head(types)) + TotalWords(Tail(types))

DecodeValue(t, b) ==
    CASE t = "uint256[2]" -> TupleV(<<IntV(BytesToInt(SubSeq(b, 1, WordBytes))),
                                      IntV(BytesToInt(SubSeq(b, WordBytes + 1, 2 * WordBytes)))>>)
      [] t = "bytes32" -> BytesV(b)
      [] OTHER -> IntV(BytesToInt(b))

RECURSIVE DecodeValues(_, _)
DecodeValues(types, b) ==
    IF types = <<>> THEN <<>>
    ELSE LET n == WordBytes * TypeWords(Head(types))
         IN  <<DecodeValue(Head(types), SubSeq(b, 1, n))>>
             \o DecodeValues(Tail(types), SubSeq(b, n + 1, Len(b)))

eth_abi_decode(types, b) ==
    IF Len(b) < WordBytes * TotalWords(types) THEN Raised("InsufficientDataBytes", "")
    ELSE Returned(DecodeValues(types, b))

(***************************************************************************)
(* _decode, in the stages the stepwise actions and the callers share.      *)
(***************************************************************************)
MsgNotEnoughTopics == "Event log does not contain enough topics for the given ABI - this is usually because an event argument is not marked as indexed"
MsgMoreTopics == "Event log contains more topics than expected for the given ABI - this is usually because an event argument is incorrectly marked as indexed"
MsgInsufficient == "Event data has insufficient length"

IsIndexed(p) == p.indexed
IsUnindexed(p) == ~p.indexed
IndexedCount(ins) == Len(SelectSeq(ins, IsIndexed))

\* SelectUnindexed without the zero-topics exception of lines 332-335.
SelectUnindexed_NoException(ins, tps) ==
    LET indexed_count == IndexedCount(ins)
    IN  IF indexed_count < Len(tps) THEN Raised("EventError", MsgNotEnoughTopics)
        ELSE IF indexed_count > Len(tps) THEN Raised("EventError", MsgMoreTopics)
        ELSE Returned(SelectSeq(ins, IsUnindexed))

\* lines 330-348: the inputs whose values come from the data buffer
SelectUnindexed(ins, tps) ==
    LET indexed_count == IndexedCount(ins)
    IN  IF indexed_count # 0 /\ tps = <<>> THEN Returned(ins)
        ELSE IF indexed_count < Len(tps) THEN Raised("EventError", MsgNotEnoughTopics)
        ELSE IF indexed_count > Len(tps) THEN Raised("EventError", MsgMoreTopics)
        ELSE Returned(SelectSeq(ins, IsUnindexed))

\* lines 351-354
CanonicalTypes(unindexed) ==
    LET r == _params(unindexed)
    IN  IF r.exc \in {"KeyError", "TypeError"} THEN Raised("ABIError", "Invalid ABI") ELSE r

\* lines 356-358: the buffer handed to the codec
CodecBuffer(types, d) ==
    IF types # <<>> /\ d = EmptyMarker THEN _0xstring(IntV(Len(types) * WordBytes)) ELSE d

\* DecodeUnindexed without the reversal of line 361.
DecodeUnindexed_NoReverse(types, d) ==
    LET r == eth_abi_decode(types, HexBytes(CodecBuffer(types, d)))
    IN  IF r.exc = "InsufficientDataBytes" THEN Raised("EventError", MsgInsufficient)
        ELSE Returned(r.value)

\* lines 360-369: the decoded values, reversed into a pop-stack
DecodeUnindexed(types, d) ==
    LET r == eth_abi_decode(types, HexBytes(CodecBuffer(types, d)))
    IN  IF r.exc = "InsufficientDataBytes" THEN Raised("EventError", MsgInsufficient)
        ELSE Returned(Reverse(r.value))

Render(value) == IF value.k = "bytes" THEN _0xstring(value) ELSE value

FieldBase(p) ==
    IF "components" \in DOMAIN p
    THEN [name |-> p.name, type |-> p.type, components |-> p.components]
    ELSE [name |-> p.name, type |-> p.type]

\* lines 374-393: one iteration of the loop over the inputs
AssembleStep(p, tps, dec) ==
    IF tps # <<>> /\ p.indexed
    THEN LET encoded == BytesV(HexBytes(Last(tps)))
             single == eth_abi_decode(<<p.type>>, encoded.b)
         IN  IF single.exc \in {"InsufficientDataBytes", "NoEntriesFound", "OverflowError"}
             THEN [exc |-> "none", topics |-> Front(tps), decoded |-> dec,
                   field |-> FieldBase(p) @@ [value |-> _0xstring(encoded), decoded |-> FALSE]]
             ELSE [exc |-> "none", topics |-> Front(tps), decoded |-> dec,
                   field |-> FieldBase(p) @@ [value |-> Render(single.value[1]), decoded |-> TRUE]]
    ELSE IF dec = <<>>
         THEN [exc |-> "IndexError", topics |-> tps, decoded |-> dec, field |-> None]
         ELSE [exc |-> "none", topics |-> tps, decoded |-> Front(dec),
               field |-> FieldBase(p) @@ [value |-> Render(Last(dec)), decoded |-> TRUE]]

RECURSIVE Assemble(_, _, _, _)
Assemble(ins, tps, dec, acc) ==
    IF ins = <<>> THEN Returned(acc)
    ELSE LET s == AssembleStep(Head(ins), tps, dec)
         IN  IF s.exc # "none" THEN Raised(s.exc, "pop from empty list")
             ELSE Assemble(Tail(ins), s.topics, s.decoded, Append(acc, s.field))

_decode(ins, tps, d) ==
    LET sel == SelectUnindexed(ins, tps)
    IN  IF sel.exc # "none" THEN sel
        ELSE LET types == CanonicalTypes(sel.value)
             IN  IF types.exc # "none" THEN types
                 ELSE LET dec == DecodeUnindexed(types.value, d)
                      IN  IF dec.exc # "none" THEN dec
                          ELSE Assemble(ins, Reverse(tps), dec.value, <<>>)

(***************************************************************************)
(* decode_log                                                              *)
(***************************************************************************)
ADD_LOG_ENTRIES == {"logIndex", "blockNumber", "transactionIndex"}

to_checksum_address(a) == [k |-> "address", b |-> HexBytes(a)]

append_additional_log_data(lg, event) ==
    event @@ [e \in (ADD_LOG_ENTRIES \cap DOMAIN lg) |-> lg[e]]

\* lines 141-151 given the outcome of _decode
WrapEvent(lg, schema, fields) ==
    IF fields.exc \in {"KeyError", "TypeError"} THEN Raised("EventError", "Invalid event")
    ELSE IF fields.exc # "none" THEN fields
    ELSE IF "address" \notin DOMAIN lg THEN Raised("EventError", "Invalid event")
    ELSE Returned(append_additional_log_data(lg,
            [name |-> schema.name, data |-> fields.value, decoded |-> TRUE,
             address |-> to_checksum_address(lg.address)]))

decode_log(lg, tmap) ==
    IF lg.topics = <<>> THEN Raised("EventError", "Cannot decode an anonymous event")
    ELSE LET key == _0xstring(lg.topics[1])
         IN  IF key \notin DOMAIN tmap
             THEN Raised("UnknownEvent", "Event topic is not present in given ABI")
             ELSE WrapEvent(lg, tmap[key],
                            _decode(tmap[key].inputs, Tail(lg.topics), lg.data))

(***************************************************************************)
(* Inputs of the receipt decoding model.                                   *)
(***************************************************************************)
Names == <<"a", "b", "c", "d", "e">>
InputTypes == {"uint256", "bytes32", "uint256[2]"}

Schemas(maxn) ==
    UNION {{[j \in 1..n |-> [name |-> Names[j], type |-> f[j][1], indexed |-> f[j][2]]] :
                f \in [1..n -> InputTypes \X BOOLEAN]} : n \in 0..maxn}

\* keccak is a black box: two fixed 32-byte digests stand for a registered and an
\* unregistered event signature.
KnownTopic == StrV(TRUE, HighWord(1))
UnknownTopic == StrV(TRUE, HighWord(2))
IndexTopic(j) == StrV(TRUE, Word(64 + j))
IndexTopics(k) == [j \in 1..k |-> IndexTopic(j)]

RECURSIVE Concat(_)
Concat(ws) == IF ws = <<>> THEN <<>> ELSE Head(ws) \o Concat(Tail(ws))

DataWords(n) == StrV(TRUE, Concat([j \in 1..n |-> Word(j)]))
RaggedData == StrV(TRUE, Word(1) \o <<7>>)
DataBuffers == {DataWords(n) : n \in 0..MaxWords} \cup {RaggedData}

SomeAddress == StrV(TRUE, [j \in 1..(AddressHexChars \div 2) |-> 170])

LogTopics == {<<>>} \cup {<<t>> \o IndexTopics(k) : t \in {KnownTopic, UnknownTopic}, k \in 0..MaxTopics}

ReceiptLogs ==
    {[topics |-> t, data |-> d, address |-> SomeAddress, logIndex |-> IntV(0)] :
        t \in LogTopics, d \in DataBuffers}
    \cup {[topics |-> t, data |-> d] : t \in LogTopics, d \in DataBuffers}

TopicMapOf(schema) == [key \in {_0xstring(KnownTopic)} |-> [name |-> TextV("Ev"), inputs |-> schema]]

Idle == <<>>

InitIdleDecode ==
    /\ inputs = Idle /\ topics = Idle /\ data = Idle /\ unindexed_types = Idle
    /\ decoded = Idle /\ result = Idle /\ pos = 0
InitIdleLogs == logs = Idle /\ item = 0
InitIdleTrace ==
    /\ struct_logs = Idle /\ initial_address = None /\ address_list = Idle
    /\ last_step = None /\ i = 0
InitIdleTopic == event_abi = None /\ abi = Idle

InitDecode ==
    /\ hex0x \in BOOLEAN
    /\ pc = "decode_log"
    /\ ret = None
    /\ \E schema \in Schemas(MaxInputs) : topic_map = TopicMapOf(schema)
    /\ log \in ReceiptLogs
    /\ allow_undecoded = FALSE /\ events = Idle
    /\ InitIdleDecode /\ InitIdleLogs /\ InitIdleTrace /\ InitIdleTopic

Finish(r) ==
    /\ ret' = r
    /\ pc' = IF r.exc = "none" THEN "returned" ELSE "raised"

Schema == topic_map[_0xstring(log.topics[1])]

\* decode_log, lines 133-144: the checks before _decode is entered
DecodeLogCall ==
    /\ pc = "decode_log"
    /\ IF log.topics = <<>> \/ _0xstring(log.topics[1]) \notin DOMAIN topic_map
       THEN /\ Finish(decode_log(log, topic_map))
            /\ UNCHANGED decodeVars
       ELSE /\ inputs' = Schema.inputs
            /\ topics' = Tail(log.topics)
            /\ data' = log.data
            /\ pc' = "_decode:select"
            /\ UNCHANGED <<ret, unindexed_types, decoded, result, pos>>
    /\ UNCHANGED <<hex0x, topic_map, log, allow_undecoded, events, logsVars, traceVars, topicVars>>

\* _decode, lines 330-348
DecodeSelect ==
    /\ pc = "_decode:select"
    /\ LET sel == SelectUnindexed(inputs, topics)
       IN  IF sel.exc # "none"
           THEN Finish(WrapEvent(log, Schema, sel)) /\ UNCHANGED unindexed_types
           ELSE unindexed_types' = sel.value /\ pc' = "_decode:params" /\ UNCHANGED ret
    /\ UNCHANGED <<inputs, topics, data, decoded, result, pos>>
    /\ UNCHANGED <<hex0x, topic_map, log, allow_undecoded, events, logsVars, traceVars, topicVars>>

\* _decode, lines 351-358
DecodeParams ==
    /\ pc = "_decode:params"
    /\ LET types == CanonicalTypes(unindexed_types)
       IN  IF types.exc # "none"
           THEN Finish(WrapEvent(log, Schema, types)) /\ UNCHANGED <<unindexed_types, data>>
           ELSE /\ unindexed_types' = types.value
                /\ data' = CodecBuffer(types.value, data)
                /\ pc' = "_decode:codec"
                /\ UNCHANGED ret
    /\ UNCHANGED <<inputs, topics, decoded, result, pos>>
    /\ UNCHANGED <<hex0x, topic_map, log, allow_undecoded, events, logsVars, traceVars, topicVars>>

\* _decode, lines 360-373
DecodeData ==
    /\ pc = "_decode:codec"
    /\ LET dec == DecodeUnindexed(unindexed_types, data)
       IN  IF dec.exc # "none"
           THEN Finish(WrapEvent(log, Schema, dec)) /\ UNCHANGED <<decoded, topics, result, pos>>
           ELSE /\ decoded' = dec.value
                /\ topics' = Reverse(topics)
                /\ result' = <<>>
                /\ pos' = 1
                /\ pc' = "_decode:fields"
                /\ UNCHANGED ret
    /\ UNCHANGED <<inputs, data, unindexed_types>>
    /\ UNCHANGED <<hex0x, topic_map, log, allow_undecoded, events, logsVars, traceVars, topicVars>>

\* _decode, lines 374-393: one input
DecodeField ==
    /\ pc = "_decode:fields"
    /\ pos <= Len(inputs)
    /\ LET s == AssembleStep(inputs[pos], topics, decoded)
       IN  IF s.exc # "none"
           THEN Finish(WrapEvent(log, Schema, Raised(s.exc, "pop from empty list")))
                /\ UNCHANGED <<topics, decoded, result, pos>>
           ELSE /\ topics' = s.topics
                /\ decoded' = s.decoded
                /\ result' = Append(result, s.field)
                /\ pos' = pos + 1
                /\ UNCHANGED <<pc, ret>>
    /\ UNCHANGED <<inputs, data, unindexed_types>>
    /\ UNCHANGED <<hex0x, topic_map, log, allow_undecoded, events, logsVars, traceVars, topicVars>>

\* _decode, line 395, and decode_log, lines 142-151
DecodeReturn ==
    /\ pc = "_decode:fields"
    /\ pos > Len(inputs)
    /\ Finish(WrapEvent(log, Schema, Returned(result)))
    /\ UNCHANGED decodeVars
    /\ UNCHANGED <<hex0x, topic_map, log, allow_undecoded, events, logsVars, traceVars, topicVars>>

NextDecode ==
    \/ DecodeLogCall
    \/ DecodeSelect
    \/ DecodeParams
    \/ DecodeData
    \/ DecodeField
    \/ DecodeReturn

SpecDecode == InitDecode /\ [][NextDecode]_vars

\* The stepwise run of decode_log ends as the function composed of its stages does.
StepwiseAgrees ==
    (pc \in {"returned", "raised"} /\ log # None) => ret = decode_log(log, topic_map)

(***************************************************************************)
(* Claims about decode_log and _decode, checked under SpecDecode.          *)
(***************************************************************************)
Terminal == pc \in {"returned", "raised"}
KnownLog == log # None /\ log.topics # <<>> /\ _0xstring(log.topics[1]) \in DOMAIN topic_map
ExtraTopics == Len(log.topics) - 1
DeclaredIndexed == Cardinality({j \in DOMAIN Schema.inputs : Schema.inputs[j].indexed})
ExceptionPath == ExtraTopics = 0 /\ DeclaredIndexed >= 1
TypesOf(ins) == [j \in 1..Len(ins) |-> ins[j].type]

\* What the j-th of the inputs `ins` is worth when `ins` are laid out in the buffer
\* one after the other.
ValueInBuffer(ins, j, bytes) ==
    LET before == TotalWords(TypesOf(SubSeq(ins, 1, j - 1)))
        width == TypeWords(ins[j].type)
    IN  Render(DecodeValue(ins[j].type,
                           SubSeq(bytes, WordBytes * before + 1, WordBytes * (before + width))))

\* C1: with k topics after topics[0] and n inputs declared indexed, decode_log fails
\* with EventError whenever k >= 1 and k # n; when k = 0 and n >= 1 it does not fail
\* for a count mismatch, hands the full input list to the codec as the unindexed
\* type list, and every declared input gets its value from the data buffer.
C1_CountMismatchPolicy ==
    KnownLog =>
        /\ (Terminal /\ ExtraTopics >= 1 /\ ExtraTopics # DeclaredIndexed)
              => ret.exc = "EventError"
        /\ ExceptionPath =>
              /\ pc = "_decode:params" => unindexed_types = Schema.inputs
              /\ pc \in {"_decode:codec", "_decode:fields"}
                    => unindexed_types = TypesOf(Schema.inputs)
              /\ Terminal => ret.msg \notin {MsgNotEnoughTopics, MsgMoreTopics}
              /\ pc = "returned" =>
                    /\ Len(ret.value.data) = Len(Schema.inputs)
                    /\ \A j \in DOMAIN Schema.inputs :
                          /\ ret.value.data[j].decoded
                          /\ ret.value.data[j].value
                                = ValueInBuffer(Schema.inputs, j, log.data.b)

C1_Witness ==
    /\ KnownLog /\ ExceptionPath /\ pc = "returned"
    /\ \E j, m \in DOMAIN Schema.inputs : Schema.inputs[j].indexed /\ ~Schema.inputs[m].indexed

C1_WitnessMismatch ==
    KnownLog /\ Terminal /\ ExtraTopics >= 1 /\ ExtraTopics # DeclaredIndexed

IndexedRank(ins, j) == Cardinality({m \in 1..j : ins[m].indexed})
UnindexedBefore(ins, j) == SelectSeq(SubSeq(ins, 1, j), IsUnindexed)

\* The value an indexed input takes from its topic word: a one-word type is decoded,
\* a wider one stays the encoded word.
ValueOfTopic(p, topic) ==
    IF TypeWords(p.type) = 1
    THEN [value |-> Render(DecodeValue(p.type, topic.b)), decoded |-> TRUE]
    ELSE [value |-> StrV(hex0x, topic.b), decoded |-> FALSE]

\* C2: a successful decode returns one field per declared input, in declaration
\* order; the j-th input declared indexed takes the j-th topic after topics[0], the
\* j-th input declared unindexed the j-th value decoded from the data buffer (the
\* i-th input the i-th value in the zero-extra-topics path), and when assembly ends
\* no topic and no decoded value is left over.
C2_AssemblyOrder ==
    (KnownLog /\ pc = "returned") =>
        LET ins == Schema.inputs
            out == ret.value.data
        IN  /\ Len(out) = Len(ins)
            /\ topics = <<>>
            /\ decoded = <<>>
            /\ \A j \in DOMAIN ins :
                  /\ out[j].name = ins[j].name
                  /\ out[j].type = ins[j].type
                  /\ IF ExceptionPath
                     THEN out[j].value = ValueInBuffer(ins, j, log.data.b)
                     ELSE IF ins[j].indexed
                     THEN LET v == ValueOfTopic(ins[j], log.topics[1 + IndexedRank(ins, j)])
                          IN  out[j].value = v.value /\ out[j].decoded = v.decoded
                     ELSE LET un == UnindexedBefore(ins, j)
                          IN  out[j].value = ValueInBuffer(un, Len(un), log.data.b)

C2_Witness ==
    /\ KnownLog /\ pc = "returned" /\ ~ExceptionPath
    /\ ExtraTopics >= 2
    /\ \E j, m \in DOMAIN Schema.inputs : j < m /\ ~Schema.inputs[j].indexed /\ Schema.inputs[m].indexed
    /\ Cardinality({j \in DOMAIN Schema.inputs : ~Schema.inputs[j].indexed}) >= 1

\* C5: whenever the canonical unindexed type list has count >= 1 entries and the
\* data buffer is the empty marker "0x", the buffer handed to the word codec is
\* 32 * count zero bytes.
C5_ZeroFilledBuffer ==
    (pc = "_decode:codec" /\ Len(unindexed_types) >= 1 /\ log.data = EmptyMarker)
        => HexBytes(data) = Zeros(WordBytes * Len(unindexed_types))

\* C8: a count-mismatch EventError names the direction of the mismatch: fewer topics
\* than declared indexed inputs gives the "not enough topics / not marked as indexed"
\* error, more topics gives the "more topics / incorrectly marked as indexed" one.
C8_MismatchDirection ==
    (KnownLog /\ pc = "raised" /\ ret.msg \in {MsgNotEnoughTopics, MsgMoreTopics}) =>
        /\ ExtraTopics < DeclaredIndexed => ret.msg = MsgNotEnoughTopics
        /\ ExtraTopics > DeclaredIndexed => ret.msg = MsgMoreTopics

(***************************************************************************)
(* decode_logs                                                             *)
(***************************************************************************)
HexTopics(tps) == [j \in 1..Len(tps) |-> _0xstring(tps[j])]

Undecodable(lg, tmap) == lg.topics = <<>> \/ HexTopics(lg.topics)[1] \notin DOMAIN tmap

\* lines 195-202: the event returned for a log that cannot be decoded
UndecodedEvent(lg) ==
    IF "address" \notin DOMAIN lg THEN Raised("KeyError", "address")
    ELSE Returned(append_additional_log_data(lg,
            [name |-> None, topics |-> HexTopics(lg.topics), data |-> _0xstring(lg.data),
             decoded |-> FALSE, address |-> to_checksum_address(lg.address)]))

\* The loop body without the allow_undecoded check of lines 193-194.
LogsItemOutcome_AlwaysAllow(lg, tmap, allow) ==
    IF Undecodable(lg, tmap) THEN UndecodedEvent(lg) ELSE decode_log(lg, tmap)

\* lines 191-204: the body of the loop, for one log
LogsItemOutcome(lg, tmap, allow) ==
    IF Undecodable(lg, tmap)
    THEN IF ~allow THEN Raised("UnknownEvent", "Log contains undecodable event")
         ELSE UndecodedEvent(lg)
    ELSE decode_log(lg, tmap)

LogsSchema ==
    <<[name |-> "a", type |-> "uint256", indexed |-> TRUE],
      [name |-> "b", type |-> "uint256", indexed |-> FALSE]>>

BatchLogs ==
    {[topics |-> t, data |-> d, address |-> SomeAddress, logIndex |-> IntV(0)] :
        t \in {<<>>, <<UnknownTopic>>, <<KnownTopic>>,
               <<KnownTopic>> \o IndexTopics(1), <<KnownTopic>> \o IndexTopics(2)},
        d \in {DataWords(0), DataWords(2)}}
    \cup {[topics |-> <<UnknownTopic>>, data |-> DataWords(0)]}

LogLists == UNION {[1..n -> BatchLogs] : n \in 0..MaxLogs}

InitLogs ==
    /\ hex0x \in BOOLEAN
    /\ pc = "decode_logs"
    /\ ret = None
    /\ topic_map = TopicMapOf(LogsSchema)
    /\ log = None
    /\ logs \in LogLists
    /\ allow_undecoded \in BOOLEAN
    /\ events = <<>>
    /\ item = 1
    /\ InitIdleDecode /\ InitIdleTrace /\ InitIdleTopic

\* decode_logs, lines 190-206: one log
DecodeLogsItem ==
    /\ pc = "decode_logs"
    /\ item <= Len(logs)
    /\ LET r == LogsItemOutcome(logs[item], topic_map, allow_undecoded)
       IN  IF r.exc # "none"
           THEN Finish(r) /\ UNCHANGED <<events, item>>
           ELSE events' = Append(events, r.value) /\ item' = item + 1 /\ UNCHANGED <<pc, ret>>
    /\ UNCHANGED <<hex0x, topic_map, log, logs, allow_undecoded, decodeVars, traceVars, topicVars>>

\* decode_logs, line 208
DecodeLogsReturn ==
    /\ pc = "decode_logs"
    /\ item > Len(logs)
    /\ Finish(Returned(events))
    /\ UNCHANGED <<hex0x, topic_map, log, logs, allow_undecoded, events, item,
                   decodeVars, traceVars, topicVars>>

NextLogs ==
    \/ DecodeLogsItem
    \/ DecodeLogsReturn

SpecLogs == InitLogs /\ [][NextLogs]_vars

(***************************************************************************)
(* Claims about decode_logs, checked under SpecLogs.                       *)
(***************************************************************************)
NoTopicOrUnknown(lg) == lg.topics = <<>> \/ StrV(hex0x, lg.topics[1].b) \notin DOMAIN topic_map
SomeUndecodable == \E j \in DOMAIN logs : NoTopicOrUnknown(logs[j])
FirstUndecodable == CHOOSE j \in DOMAIN logs :
                        NoTopicOrUnknown(logs[j]) /\ \A m \in 1..(j - 1) : ~NoTopicOrUnknown(logs[m])

IsPlaceholder(ev, lg) ==
    /\ ev.name = None
    /\ ev.decoded = FALSE
    /\ Len(ev.topics) = Len(lg.topics)
    /\ \A j \in DOMAIN lg.topics : ev.topics[j].b = lg.topics[j].b
    /\ ev.data.b = lg.data.b

AllowedBatch ==
    allow_undecoded =>
        /\ ret.exc # "UnknownEvent"
        /\ pc = "returned" =>
              /\ Len(ret.value) = Len(logs)
              /\ \A j \in DOMAIN logs :
                    IF NoTopicOrUnknown(logs[j])
                    THEN IsPlaceholder(ret.value[j], logs[j])
                    ELSE /\ ret.value[j].decoded = TRUE
                         /\ ret.value[j].name # None
                         /\ Returned(ret.value[j]) = decode_log(logs[j], topic_map)

\* C3 as stated: without allow_undecoded, a list holding an undecodable log makes
\* the call fail with UnknownEvent, whatever precedes that log.
C3_Original ==
    (Terminal /\ logs # Idle) =>
        /\ (~allow_undecoded /\ SomeUndecodable)
              => (pc = "raised" /\ ret.exc = "UnknownEvent" /\ ret.value = None)
        /\ AllowedBatch

\* C3 as amended: without allow_undecoded, a list holding an undecodable log makes
\* the call fail and return no events; the failure is UnknownEvent when every log
\* before the first undecodable one decodes, and otherwise the error of the first
\* log that fails to decode.  With allow_undecoded the call never fails with
\* UnknownEvent, and a returned list has one entry per log, in order, a placeholder
\* exactly for the undecodable logs.
C3_BatchPolicy ==
    (Terminal /\ logs # Idle) =>
        /\ (~allow_undecoded /\ SomeUndecodable) =>
              /\ pc = "raised"
              /\ ret.value = None
              /\ IF \A m \in 1..(FirstUndecodable - 1) : decode_log(logs[m], topic_map).exc = "none"
                 THEN ret.exc = "UnknownEvent"
                 ELSE LET f == CHOOSE m \in 1..(FirstUndecodable - 1) :
                                 /\ decode_log(logs[m], topic_map).exc # "none"
                                 /\ \A q \in 1..(m - 1) : decode_log(logs[q], topic_map).exc = "none"
                      IN  ret = decode_log(logs[f], topic_map)
        /\ AllowedBatch

C3_Witness ==
    /\ pc = "returned" /\ logs # Idle /\ allow_undecoded
    /\ Len(logs) >= 3
    /\ NoTopicOrUnknown(logs[2]) /\ ~NoTopicOrUnknown(logs[1]) /\ ~NoTopicOrUnknown(logs[3])

C3_WitnessRaised ==
    /\ pc = "raised" /\ logs # Idle /\ ~allow_undecoded /\ ret.exc = "UnknownEvent"
    /\ Len(logs) >= 2 /\ ~NoTopicOrUnknown(logs[1])

(***************************************************************************)
(* decode_traceTransaction                                                 *)
(***************************************************************************)
Min(a, b) == IF a < b THEN a ELSE b

\* word[-40:]: the last 40 hex characters, the whole string when it is shorter
LowBytes(b, n) == IF Len(b) <= n THEN b ELSE SubSeq(b, Len(b) - n + 1, Len(b))

\* to_checksum_address(f"0x{word[-40:]}")
AddressOfWord(word) == to_checksum_address(StrV(TRUE, LowBytes(word.b, AddressHexChars \div 2)))

CreateOps == {"CREATE", "CREATE2"}

\* line 255: the steps of struct_logs[i:] at the depth of last_step
OutSteps(rest, last) == SelectSeq(rest, LAMBDA x : x.depth = last.depth)

\* line 259 reading the top stack word instead of the second from the top.
CallTarget_TopWord(last) ==
    IF "stack" \notin DOMAIN last THEN Raised("KeyError", "stack")
    ELSE IF Len(last.stack) < 1 THEN Raised("IndexError", "list index out of range")
    ELSE Returned(AddressOfWord(last.stack[Len(last.stack)]))

\* line 259: the address a call enters, from last_step['stack'][-2]
CallTarget(last) ==
    IF "stack" \notin DOMAIN last THEN Raised("KeyError", "stack")
    ELSE IF Len(last.stack) < 2 THEN Raised("IndexError", "list index out of range")
    ELSE Returned(AddressOfWord(last.stack[Len(last.stack) - 1]))

\* lines 255-256: the address a creation enters, from the first later step back at
\* the creating depth
CreatedAddress(rest, last) ==
    LET outs == OutSteps(rest, last)
    IN  IF outs = <<>> THEN Raised("StopIteration", "")
        ELSE IF "stack" \notin DOMAIN outs[1] THEN Raised("KeyError", "stack")
        ELSE IF outs[1].stack = <<>> THEN Raised("IndexError", "list index out of range")
        ELSE Returned(AddressOfWord(Last(outs[1].stack)))

\* The bookkeeping without the pop of lines 262-263.
TrackAddress_NoPop(alist, step, last, rest, initial) ==
    IF initial = None THEN Returned(alist)
    ELSE IF step.depth > last.depth
    THEN LET a == IF last.op \in CreateOps THEN CreatedAddress(rest, last) ELSE CallTarget(last)
         IN  IF a.exc # "none" THEN a ELSE Returned(Append(alist, a.value))
    ELSE Returned(alist)

\* lines 252-263: the address stack after the bookkeeping of one step
TrackAddress(alist, step, last, rest, initial) ==
    IF initial = None THEN Returned(alist)
    ELSE IF step.depth > last.depth
    THEN LET a == IF last.op \in CreateOps THEN CreatedAddress(rest, last) ELSE CallTarget(last)
         IN  IF a.exc # "none" THEN a ELSE Returned(Append(alist, a.value))
    ELSE IF step.depth < last.depth
    THEN IF alist = <<>> THEN Raised("IndexError", "pop from empty list")
         ELSE Returned(Front(alist))
    ELSE Returned(alist)

LogOps == {"LOG0", "LOG1", "LOG2", "LOG3", "LOG4"}

\* line 266 recognising only the opcodes that carry a topic.
IsLogOp_TopicsOnly(op) == op \in LogOps \ {"LOG0"}

\* line 266: step["op"].startswith("LOG")
IsLogOp(op) == op \in LogOps

\* line 272: int(step["op"][-1])
TopicLen(op) ==
    CASE op = "LOG0" -> 0 [] op = "LOG1" -> 1 [] op = "LOG2" -> 2 [] op = "LOG3" -> 3 [] op = "LOG4" -> 4

\* line 273: stack[-3 : -3 - topic_len : -1], a slice, which shortens silently
StackTopics(stack, n) ==
    IF Len(stack) < 3 THEN <<>>
    ELSE [j \in 1..Min(n, Len(stack) - 2) |-> stack[Len(stack) - 1 - j]]

\* lines 269-277
ExtractStack(step) ==
    IF "stack" \notin DOMAIN step THEN Raised("StructLogError", "StructLog has no stack")
    ELSE IF Len(step.stack) < 2 THEN Raised("StructLogError", "Malformed stack")
    ELSE Returned([offset |-> BytesToInt(Last(step.stack).b),
                   length |-> BytesToInt(step.stack[Len(step.stack) - 1].b),
                   topics |-> HexTopics(StackTopics(step.stack, TopicLen(step.op)))])

\* lines 279-282: memory[offset : offset + length] as a hex string
ExtractData(step, offset, length) ==
    IF "memory" \notin DOMAIN step THEN Raised("StructLogError", "Malformed memory")
    ELSE LET bytes == Concat([j \in 1..Len(step.memory) |-> step.memory[j].b])
         IN  Returned(_0xstring(StrV(hex0x,
                 SubSeq(bytes, offset + 1, Min(offset + length, Len(bytes))))))

\* lines 284-300: the event of a LOG step whose topics and data are extracted
TraceEvent(tps, d, tmap, allow, alist) ==
    IF tps = <<>> \/ tps[1] \notin DOMAIN tmap
    THEN IF ~allow THEN Raised("UnknownEvent", "Log contains undecodable event")
         ELSE IF alist = <<>> THEN Raised("IndexError", "list index out of range")
         ELSE Returned([name |-> None, topics |-> tps, data |-> d, decoded |-> FALSE,
                        address |-> Last(alist)])
    ELSE LET fields == _decode(tmap[tps[1]].inputs, Tail(tps), d)
         IN  IF fields.exc # "none" THEN fields
             ELSE IF alist = <<>> THEN Raised("IndexError", "list index out of range")
             ELSE Returned([name |-> tmap[tps[1]].name, data |-> fields.value,
                            decoded |-> TRUE, address |-> Last(alist)])

\* lines 269-300
LogStepOutcome(step, tmap, allow, alist) ==
    LET st == ExtractStack(step)
    IN  IF st.exc # "none" THEN st
        ELSE LET d == ExtractData(step, st.value.offset, st.value.length)
             IN  IF d.exc # "none" THEN d
                 ELSE TraceEvent(st.value.topics, d.value, tmap, allow, alist)

(***************************************************************************)
(* Inputs of the trace walker model: traces of steps that exercise the LOG *)
(* extraction (no address tracking, one depth) and traces that exercise    *)
(* the address bookkeeping (calls, creations, returns).                    *)
(***************************************************************************)
StackWord(b) == StrV(FALSE, b)
MemoryWords == <<StackWord(Word(1)), StackWord(Word(2))>>
TopicWord == StackWord(HighWord(1))
Length(n) == StackWord(Word(n * WordBytes))
Offset0 == StackWord(Word(0))

LogShapes ==
    { [op |-> "ADD", stack |-> <<>>, memory |-> <<>>],
      [op |-> "LOG0", stack |-> <<Length(1), Offset0>>, memory |-> MemoryWords],
      [op |-> "LOG1", stack |-> <<TopicWord, Length(2), Offset0>>, memory |-> MemoryWords],
      [op |-> "LOG2", stack |-> <<TopicWord, Length(2), Offset0>>, memory |-> MemoryWords],
      [op |-> "LOG1", stack |-> <<Offset0>>, memory |-> MemoryWords],
      [op |-> "LOG1", memory |-> MemoryWords] }

CallShapes ==
    { [op |-> "CALL", stack |-> <<StackWord(HighWord(5)), StackWord(Word(9))>>, memory |-> <<>>],
      [op |-> "CREATE", stack |-> <<>>, memory |-> <<>>],
      [op |-> "LOG0", stack |-> <<Length(1), Offset0>>, memory |-> MemoryWords] }

AtDepth(shape, d) == shape @@ [depth |-> d]

LogTraces ==
    UNION {[1..n -> {AtDepth(sh, 1) : sh \in LogShapes}] : n \in 0..MaxSteps}
CallTraces ==
    UNION {[1..n -> {AtDepth(sh, d) : sh \in CallShapes, d \in 1..MaxDepth}] : n \in 1..MaxSteps}

InitTrace ==
    /\ pc = "decode_traceTransaction"
    /\ ret = None
    /\ log = None
    /\ events = Idle
    /\ address_list = Idle /\ last_step = None /\ i = 0
    /\ \/ /\ hex0x \in BOOLEAN
          /\ struct_logs \in LogTraces
          /\ allow_undecoded \in BOOLEAN
          /\ initial_address = None
       \/ /\ hex0x = TRUE
          /\ struct_logs \in CallTraces
          /\ allow_undecoded = TRUE
          /\ initial_address = SomeAddress
    /\ topic_map = TopicMapOf(LogsSchema)
    /\ InitIdleDecode /\ InitIdleLogs /\ InitIdleTopic

\* decode_traceTransaction, lines 243-249
TraceEnter ==
    /\ pc = "decode_traceTransaction"
    /\ IF struct_logs = <<>>
       THEN /\ Finish(Raised("IndexError", "list index out of range"))
            /\ UNCHANGED <<events, address_list, last_step, i>>
       ELSE /\ events' = <<>>
            /\ address_list' = <<IF initial_address # None
                                 THEN to_checksum_address(initial_address) ELSE None>>
            /\ last_step' = struct_logs[1]
            /\ i' = 2
            /\ pc' = "walk"
            /\ UNCHANGED ret
    /\ UNCHANGED <<hex0x, topic_map, log, allow_undecoded, struct_logs, initial_address,
                   decodeVars, logsVars, topicVars>>

\* decode_traceTransaction, lines 250-301: one step of the trace.  i is the 1-based
\* position of the step (Python's i + 1).
TraceStep ==
    /\ pc = "walk"
    /\ i <= Len(struct_logs)
    /\ LET step == struct_logs[i]
           tracked == TrackAddress(address_list, step, last_step,
                                   SubSeq(struct_logs, i, Len(struct_logs)), initial_address)
       IN  IF tracked.exc # "none"
           THEN Finish(tracked) /\ UNCHANGED <<events, address_list, last_step, i>>
           ELSE /\ address_list' = tracked.value
                /\ last_step' = step
                /\ IF ~IsLogOp(step.op)
                   THEN i' = i + 1 /\ UNCHANGED <<events, pc, ret>>
                   ELSE LET r == LogStepOutcome(step, topic_map, allow_undecoded, tracked.value)
                        IN  IF r.exc # "none"
                            THEN Finish(r) /\ UNCHANGED <<events, i>>
                            ELSE /\ events' = Append(events, r.value)
                                 /\ i' = i + 1
                                 /\ UNCHANGED <<pc, ret>>
    /\ UNCHANGED <<hex0x, topic_map, log, allow_undecoded, struct_logs, initial_address,
                   decodeVars, logsVars, topicVars>>

\* decode_traceTransaction, line 303
TraceReturn ==
    /\ pc = "walk"
    /\ i > Len(struct_logs)
    /\ Finish(Returned(events))
    /\ UNCHANGED <<hex0x, topic_map, log, allow_undecoded, events, struct_logs,
                   initial_address, address_list, last_step, i, decodeVars, logsVars, topicVars>>

NextTrace ==
    \/ TraceEnter
    \/ TraceStep
    \/ TraceReturn

SpecTrace == InitTrace /\ [][NextTrace]_vars

(***************************************************************************)
(* Claims about decode_traceTransaction, checked under SpecTrace.          *)
(***************************************************************************)
Walking == struct_logs # Idle /\ pc \in {"walk", "returned", "raised"}
Tracking == initial_address # None

\* The positions of LOG steps among the positions `from`..`to` of the trace.
LogPositions(from, to) == {p \in from..to : p <= Len(struct_logs) /\ struct_logs[p].op \in LogOps}

\* The position of the n-th LOG step at or after position 2.
NthLogPosition(n) ==
    CHOOSE p \in LogPositions(2, Len(struct_logs)) : Cardinality(LogPositions(2, p)) = n

\* What a LOG step leaves in an event: its topics, and the memory it points at.
MatchesStep(ev, step) ==
    LET tps == StackTopics(step.stack, TopicLen(step.op))
    IN  IF ev.decoded
        THEN /\ tps # <<>>
             /\ ev.name = topic_map[StrV(hex0x, tps[1].b)].name
        ELSE /\ Len(ev.topics) = Len(tps)
             /\ \A j \in DOMAIN tps : ev.topics[j].b = tps[j].b

\* C4 as stated: a walk that returns yields one event per LOG step of the trace,
\* the first step included, in trace order.
C4_Original ==
    (Walking /\ pc = "returned") =>
        Len(ret.value) = Cardinality(LogPositions(1, Len(struct_logs)))

\* C4 as amended: a walk that returns yields one event per LOG step after the
\* first step of the trace, in trace order; the first step only seeds last_step
\* and yields no event.
C4_EventPerLogStep ==
    (Walking /\ pc = "returned") =>
        /\ Len(ret.value) = Cardinality(LogPositions(2, Len(struct_logs)))
        /\ \A n \in DOMAIN ret.value : MatchesStep(ret.value[n], struct_logs[NthLogPosition(n)])

C4_Witness ==
    /\ Walking /\ pc = "returned"
    /\ Len(struct_logs) >= 4
    /\ struct_logs[1].op = "LOG0" /\ struct_logs[2].op = "LOG1"
    /\ struct_logs[3].op = "ADD" /\ struct_logs[4].op = "LOG0"
    /\ Len(ret.value) = 2

\* A LOGn step whose stack cannot supply offset, length and n topics.
StackTooShort(step) ==
    /\ step.op \in LogOps
    /\ "stack" \notin DOMAIN step \/ Len(step.stack) < 2 + TopicLen(step.op)

\* C6: a LOGn step with no stack, or with fewer than 2 + n stack words, makes the
\* walk fail with StructLogError; the walk never gets past such a step.
C6_ShortStackFails ==
    Walking =>
        \A p \in 2..Len(struct_logs) :
            StackTooShort(struct_logs[p]) =>
                /\ i <= p
                /\ (pc = "raised" /\ i = p) => ret.exc = "StructLogError"

\* The frame of the step at position p is entered at the last position q <= p where
\* the depth rose to the depth of p with no step from q to p below that depth; 0 when
\* p runs in the outermost frame.
FrameEntry(p) ==
    LET entries == {q \in 2..p : /\ struct_logs[q].depth > struct_logs[q - 1].depth
                                 /\ struct_logs[q].depth = struct_logs[p].depth
                                 /\ \A m \in q..p : struct_logs[m].depth >= struct_logs[p].depth}
    IN  IF entries = {} THEN 0 ELSE CHOOSE q \in entries : \A r \in entries : r <= q

Low20(word) == [k |-> "address", b |-> SubSeq(word.b, Len(word.b) - 19, Len(word.b))]

\* The positions at or after q whose depth is that of the step before q.
BackAtCallerDepth(q) ==
    {m \in q..Len(struct_logs) : struct_logs[m].depth = struct_logs[q - 1].depth}
FirstBack(q) == CHOOSE m \in BackAtCallerDepth(q) : \A r \in BackAtCallerDepth(q) : m <= r

\* Whether the word the entered address is read from exists, for the depth rise at q.
AddressSourceExists(q) ==
    IF struct_logs[q - 1].op \in CreateOps
    THEN /\ BackAtCallerDepth(q) # {}
         /\ "stack" \in DOMAIN struct_logs[FirstBack(q)]
         /\ Len(struct_logs[FirstBack(q)].stack) >= 1
    ELSE /\ "stack" \in DOMAIN struct_logs[q - 1]
         /\ Len(struct_logs[q - 1].stack) >= 2

\* The address entered at q: after a creation, the low 20 bytes of the top stack
\* word of the first step back at the creating depth; otherwise the low 20 bytes of
\* the second-from-top stack word of the step before q.
EnteredAddress(q) ==
    IF struct_logs[q - 1].op \in CreateOps
    THEN LET st == struct_logs[FirstBack(q)].stack IN Low20(st[Len(st)])
    ELSE LET st == struct_logs[q - 1].stack IN Low20(st[Len(st) - 1])

FrameAddress(p) ==
    IF FrameEntry(p) = 0 THEN [k |-> "address", b |-> initial_address.b]
    ELSE EnteredAddress(FrameEntry(p))

WellNested ==
    /\ \A p \in 2..Len(struct_logs) :
          /\ struct_logs[p].depth - struct_logs[p - 1].depth \in {-1, 0, 1}
          /\ struct_logs[p].depth >= struct_logs[1].depth

\* C9: with initial_address given, on a trace whose depth moves by at most 1 per
\* step and never drops below the first step's depth, after each processed step the
\* address stack holds 1 + (step.depth - steps[0].depth) entries, and every LOG
\* event carries the address pushed when its frame was entered (initial_address in
\* the outermost frame).
C9_AddressStack ==
    (Walking /\ Tracking /\ WellNested /\ pc \in {"walk", "returned"}) =>
        /\ Len(address_list) = 1 + (struct_logs[i - 1].depth - struct_logs[1].depth)
        /\ Len(events) = Cardinality(LogPositions(2, i - 1))
        /\ \A n \in DOMAIN events : events[n].address = FrameAddress(NthLogPosition(n))

C9_Witness ==
    /\ Walking /\ Tracking /\ WellNested /\ pc = "returned"
    /\ Len(struct_logs) >= 4
    /\ struct_logs[2].op = "LOG0" /\ struct_logs[4].op = "LOG0"
    /\ struct_logs[2].depth = struct_logs[1].depth
    /\ struct_logs[3].depth = struct_logs[2].depth + 1
    /\ struct_logs[4].depth = struct_logs[2].depth
    /\ Len(events) >= 2
    /\ events[Len(events)].address = events[Len(events) - 1].address

DepthRises == Walking /\ Tracking /\ pc = "walk" /\ i <= Len(struct_logs)
              /\ struct_logs[i].depth > struct_logs[i - 1].depth

\* C10 as stated: at every step deeper than the one before it, on every trace, one
\* address is pushed.
C10_Original ==
    [][DepthRises => Len(address_list') = Len(address_list) + 1]_vars

\* C10 as amended: at every step deeper than the one before it, when the word the
\* address is read from exists, exactly the address it holds is pushed; when it
\* does not (after a creation no step at or after the current one is back at the
\* creating depth, or that step's stack is empty; otherwise the previous step's
\* stack holds fewer than two words), nothing is pushed and the walk ends with the
\* uncaught lookup error.
C10_PushOnDepthRise ==
    [][DepthRises =>
          IF AddressSourceExists(i)
          THEN address_list' = Append(address_list, EnteredAddress(i))
          ELSE /\ address_list' = address_list
               /\ pc' = "raised"
               /\ ret'.exc \in {"StopIteration", "IndexError", "KeyError"}]_vars

C10_Witness ==
    /\ Walking /\ Tracking /\ pc = "walk" /\ i = 4
    /\ struct_logs[1].op = "CREATE" /\ struct_logs[2].depth > struct_logs[1].depth
    /\ struct_logs[3].depth = struct_logs[1].depth
    /\ Len(address_list) = 1 + (struct_logs[3].depth - struct_logs[1].depth)

(***************************************************************************)
(* get_log_topic and get_topic_map                                         *)
(***************************************************************************)
\* isinstance(v, dict): the tagged values of the model carry the field k
IsDict(v) == "k" \notin DOMAIN v

\* The hash boundary: the digest of a key is an opaque value that determines the key.
keccak(key) == BytesV(<<"keccak", key>>)

\* get_log_topic without the anonymous check of lines 53-54.
get_log_topic_NoAnonymousCheck(ev) ==
    IF ~IsDict(ev) THEN Raised("TypeError", "Must be a dictionary of the specific event's ABI")
    ELSE IF "inputs" \notin DOMAIN ev THEN Raised("KeyError", "inputs")
    ELSE LET types == _params(ev.inputs)
         IN  IF types.exc # "none" THEN types
             ELSE IF "name" \notin DOMAIN ev THEN Raised("KeyError", "name")
             ELSE Returned(_0xstring(keccak(ev.name \o "(" \o Join(types.value) \o ")")))

\* lines 51-59
get_log_topic(ev) ==
    IF ~IsDict(ev) THEN Raised("TypeError", "Must be a dictionary of the specific event's ABI")
    ELSE IF "anonymous" \in DOMAIN ev /\ ev.anonymous
    THEN Raised("ABIError", "Anonymous events do not have a topic")
    ELSE IF "inputs" \notin DOMAIN ev THEN Raised("KeyError", "inputs")
    ELSE LET types == _params(ev.inputs)
         IN  IF types.exc # "none" THEN types
             ELSE IF "name" \notin DOMAIN ev THEN Raised("KeyError", "name")
             ELSE Returned(_0xstring(keccak(ev.name \o "(" \o Join(types.value) \o ")")))

\* line 89: the entries kept, or the error of the first entry that cannot be read
RECURSIVE FilterEvents(_)
FilterEvents(entries) ==
    IF entries = <<>> THEN Returned(<<>>)
    ELSE LET e == Head(entries)
         IN  IF ~IsDict(e) THEN Raised("TypeError", "indices must be integers")
             ELSE IF "type" \notin DOMAIN e THEN Raised("KeyError", "type")
             ELSE LET rest == FilterEvents(Tail(entries))
                  IN  IF rest.exc # "none" THEN rest
                      ELSE IF e.type = "event" /\ ~("anonymous" \in DOMAIN e /\ e.anonymous)
                      THEN Returned(<<e>> \o rest.value)
                      ELSE rest

\* line 90: the dict built entry by entry, a later entry replacing an equal key
RECURSIVE BuildTopicMap(_, _)
BuildTopicMap(evs, acc) ==
    IF evs = <<>> THEN Returned(acc)
    ELSE LET e == Head(evs)
             t == get_log_topic(e)
         IN  IF t.exc # "none" THEN t
             ELSE IF "name" \notin DOMAIN e THEN Raised("KeyError", "name")
             ELSE IF "inputs" \notin DOMAIN e THEN Raised("KeyError", "inputs")
             ELSE BuildTopicMap(Tail(evs),
                    [key \in DOMAIN acc \cup {t.value} |->
                        IF key = t.value THEN [name |-> e.name, inputs |-> e.inputs]
                        ELSE acc[key]])

\* lines 88-93
get_topic_map(entries) ==
    LET events_ == FilterEvents(entries)
        built == IF events_.exc # "none" THEN events_ ELSE BuildTopicMap(events_.value, <<>>)
    IN  IF built.exc \in {"KeyError", "TypeError"} THEN Raised("ABIError", "Invalid ABI")
        ELSE built

Uint == [name |-> "x", type |-> "uint256", indexed |-> FALSE]
NoType == [name |-> "x", indexed |-> FALSE]
AbiParams ==
    { Uint,
      NoType,
      [name |-> "t", type |-> "tuple", indexed |-> FALSE, components |-> <<Uint>>],
      [name |-> "t", type |-> "tuple[]", indexed |-> FALSE,
       components |-> <<[name |-> "u", type |-> "tuple[2]", components |-> <<Uint, Uint>>]>>],
      [name |-> "t", type |-> "tuple", indexed |-> FALSE],
      [name |-> "t", type |-> "tuple[2]", indexed |-> FALSE, components |-> <<NoType>>] }

AbiInputs == UNION {[1..n -> AbiParams] : n \in 0..MaxParams}

OptionalKeys == SUBSET {"type", "anonymous", "name", "inputs"}

\* The dict with the keys `keys`, valued from the full record `full`.
Restrict(full, keys) == [key \in keys |-> full[key]]

AbiEntries ==
    {Restrict([type |-> t, anonymous |-> a, name |-> "Ev", inputs |-> ins], keys) :
        t \in {"event", "function"}, a \in BOOLEAN, ins \in AbiInputs, keys \in OptionalKeys}

NonDicts == {TextV("Transfer"), IntV(1)}

InitTopic ==
    /\ hex0x \in BOOLEAN
    /\ ret = None
    /\ topic_map = Idle
    /\ log = None
    /\ allow_undecoded = FALSE /\ events = Idle
    /\ \/ /\ pc = "get_log_topic"
          /\ event_abi \in AbiEntries \cup NonDicts
          /\ abi = Idle
       \/ /\ pc = "get_topic_map"
          /\ event_abi = None
          /\ \E e \in AbiEntries \cup NonDicts :
                abi \in {<<e>>, <<[type |-> "event", name |-> "Ev", inputs |-> <<Uint>>], e>>}
    /\ InitIdleDecode /\ InitIdleLogs /\ InitIdleTrace

GetLogTopic ==
    /\ pc = "get_log_topic"
    /\ Finish(get_log_topic(event_abi))
    /\ UNCHANGED <<hex0x, topic_map, log, allow_undecoded, events, decodeVars, logsVars,
                   traceVars, topicVars>>

GetTopicMap ==
    /\ pc = "get_topic_map"
    /\ LET r == get_topic_map(abi)
       IN  /\ Finish(r)
           /\ topic_map' = IF r.exc = "none" THEN r.value ELSE topic_map
    /\ UNCHANGED <<hex0x, log, allow_undecoded, events, decodeVars, logsVars,
                   traceVars, topicVars>>

NextTopic ==
    \/ GetLogTopic
    \/ GetTopicMap

SpecTopic == InitTopic /\ [][NextTopic]_vars

(***************************************************************************)
(* Claims about get_log_topic, checked under SpecTopic.                    *)
(***************************************************************************)
RECURSIVE ParamsWellFormed(_)
ParamsWellFormed(ps) ==
    \A j \in DOMAIN ps :
        /\ "type" \in DOMAIN ps[j]
        /\ ps[j].type \in TupleTypes =>
              /\ "components" \in DOMAIN ps[j]
              /\ ParamsWellFormed(ps[j].components)

IsAnonymous(ev) == IsDict(ev) /\ "anonymous" \in DOMAIN ev /\ ev.anonymous = TRUE
WellFormedEvent(ev) ==
    /\ IsDict(ev)
    /\ "name" \in DOMAIN ev
    /\ "inputs" \in DOMAIN ev
    /\ ParamsWellFormed(ev.inputs)

TopicCallDone == event_abi # None /\ Terminal

\* C7 as stated: get_log_topic fails with ABIError, and with no other error, for
\* every input that is an anonymous event or is not a well-formed event description.
C7_Original ==
    (TopicCallDone /\ (IsAnonymous(event_abi) \/ ~WellFormedEvent(event_abi)))
        => (pc = "raised" /\ ret.exc = "ABIError")

\* C7 as amended: get_log_topic fails for every such input, with ABIError when the
\* input is a dictionary flagged anonymous, with TypeError when it is not a
\* dictionary, and with KeyError when it is a dictionary not flagged anonymous that
\* lacks name or inputs, or holds a parameter without type or a tuple parameter
\* without components.
C7_TopicErrors ==
    (TopicCallDone /\ (IsAnonymous(event_abi) \/ ~WellFormedEvent(event_abi))) =>
        /\ pc = "raised"
        /\ ret.exc = IF ~IsDict(event_abi) THEN "TypeError"
                     ELSE IF IsAnonymous(event_abi) THEN "ABIError"
                     ELSE "KeyError"

C7_Witness ==
    /\ TopicCallDone /\ IsAnonymous(event_abi) /\ ~WellFormedEvent(event_abi)
    /\ ret.exc = "ABIError"

C7_WitnessKeyError ==
    /\ TopicCallDone /\ ~IsAnonymous(event_abi) /\ IsDict(event_abi)
    /\ "name" \in DOMAIN event_abi /\ "inputs" \in DOMAIN event_abi
    /\ ret.exc = "KeyError"

(***************************************************************************)
(* The whole program: any of its entry points, on any of the inputs above. *)
(***************************************************************************)
Init == InitDecode \/ InitLogs \/ InitTrace \/ InitTopic

Next ==
    \/ NextDecode
    \/ NextLogs
    \/ NextTrace
    \/ NextTopic

Spec == Init /\ [][Next]_vars

====
